---------------------------- MODULE Spec2Model ----------------------------
(* spwnmsg-core: the snowflake identifier generator (src/src/snowflake.rs)  *)
(* and the fixed-size packet codec (src/src/base_types/packet.rs).          *)
(*                                                                          *)
(* Spec       : the generator shared by NumThreads callers through the      *)
(*              SNOWFLAKE mutex, under a wall clock that may tick forward   *)
(*              and may be set back.                                        *)
(* SpecMonotonic : the same, with a wall clock that never moves backward.   *)
(* SpecCodec  : the packet codec driven by one caller.                      *)
(* SpecFields : the frame of the crate's test, with writes and reads of    *)
(*              identifier fields.                                          *)
(* SpecNew    : a generator made by Snowflake::new from given arguments.    *)
(* SpecLive   : Spec under fair scheduling of the callers.                  *)
EXTENDS Integers, Sequences, FiniteSets, TLC

(***************************************************************************)
(* Bounds of the model                                                     *)
(***************************************************************************)
\* number of threads calling SNOWFLAKE.lock().generate()
NumThreads == 2
\* the wall clock takes the values epoch+1 .. epoch+MaxTime (milliseconds)
MaxTime == 2
\* the observer keeps the first MaxKept identifiers that were returned
MaxKept == 1

(***************************************************************************)
(* Program constants                                                       *)
(***************************************************************************)
\* snowflake.rs:16  epoch: 1_573_948_800
DefaultEpoch == 1573948800
\* snowflake.rs:17  worker_id: 1
DefaultWorkerId == 1
\* snowflake.rs:18  datacenter_id: 1
DefaultDatacenterId == 1
\* snowflake.rs:34  -1 << 12
SequenceBits == 12
\* snowflake.rs:42  timestamp << 22
TimestampShift == 22
\* snowflake.rs:42  worker_id << 17
WorkerShift == 17
\* snowflake.rs:42  datacenter_id << 12
DatacenterShift == 12

(***************************************************************************)
(* Integer helpers: the bit operators of the i64 arithmetic, on the        *)
(* non-negative values the generator handles.                              *)
(***************************************************************************)
Pow2(n) == 2 ^ n

RECURSIVE BitAnd(_, _)
BitAnd(a, b) ==
    IF a = 0 \/ b = 0 THEN 0
    ELSE (IF a % 2 = 1 /\ b % 2 = 1 THEN 1 ELSE 0) + 2 * BitAnd(a \div 2, b \div 2)

\* the bitwise OR, bit by bit from the low end
BitOrOf[a \in Nat, b \in Nat] ==
    IF a = 0 THEN b
    ELSE IF b = 0 THEN a
    ELSE (IF a % 2 = 1 \/ b % 2 = 1 THEN 1 ELSE 0) + 2 * BitOrOf[a \div 2, b \div 2]

BitOr(a, b) == BitOrOf[a, b]

ShiftLeft(a, n) == a * Pow2(n)

\* -1 ^ (-1 << 12): the low SequenceBits bits set
SequenceMask == Pow2(SequenceBits) - 1

Threads == 1 .. NumThreads

VARIABLES
    \* the wall clock, Utc::now().timestamp_millis()
    clock,
    \* struct Snowflake
    epoch, worker_id, datacenter_id, sequence, time,
    \* the SNOWFLAKE mutex: 0 when free, else the thread holding the guard
    lock,
    \* each caller's position: "idle", "locked" (guard held, generate not yet
    \* run), "done" (generate returned, guard still held)
    pc,
    \* the value generate() returned to each caller
    ret,
    \* observer: the identifier returned by the most recent generate()
    lastId,
    \* observer: the first MaxKept identifiers returned, in order
    hist,
    \* observer: the (epoch, worker_id, datacenter_id) the generator was
    \* constructed for
    args,
    \* struct Packet(pub BasePacket): its field .0, the sequence of the 1024 bytes
    packet_0,
    \* the PacketMessageContent last parsed, if any
    content,
    \* the string last given to from_str
    text,
    \* the outcome of the last codec operation
    res

genVars == <<clock, epoch, worker_id, datacenter_id, sequence, time, lock, pc,
             ret, lastId, hist, args>>

codecVars == <<packet_0, content, text, res>>

vars == <<clock, epoch, worker_id, datacenter_id, sequence, time, lock, pc,
          ret, lastId, hist, args, packet_0, content, text, res>>

NoRet == [kind |-> "None", val |-> 0]
OkRet(id) == [kind |-> "Ok", val |-> id]

(***************************************************************************)
(* impl Default for Snowflake / Snowflake::new                             *)
(***************************************************************************)
SnowflakeDefault ==
    [epoch |-> DefaultEpoch, worker_id |-> DefaultWorkerId,
     datacenter_id |-> DefaultDatacenterId, sequence |-> 0, time |-> 0]

\* pub fn new(epoch, worker_id, datacenter_id) -> Snowflake { Default::default() }
SnowflakeNew(e, w, d) == SnowflakeDefault

\* fn get_time(&self) -> i64 { Utc::now().timestamp_millis() - self.epoch }
GetTime(now, ep) == now - ep

\* the composition with the worker id shifted like the datacenter id
\* (worker_id << 12), so that the two fields overlap
ComposeOverlap(timestamp, worker, datacenter, seq) ==
    BitOr(BitOr(BitOr(ShiftLeft(timestamp, TimestampShift),
                      ShiftLeft(worker, DatacenterShift)),
                ShiftLeft(datacenter, DatacenterShift)),
          seq)

\* (timestamp << 22) | (worker_id << 17) | (datacenter_id << 12) | sequence
Compose(timestamp, worker, datacenter, seq) ==
    BitOr(BitOr(BitOr(ShiftLeft(timestamp, TimestampShift),
                      ShiftLeft(worker, WorkerShift)),
                ShiftLeft(datacenter, DatacenterShift)),
          seq)

\* the sequence after the first clock read
NextSequence(seq, last, timestamp) ==
    IF timestamp = last THEN BitAnd(seq + 1, SequenceMask) ELSE 0

\* whether generate() reads the clock a second time
Rereads(seq, last, timestamp) ==
    /\ timestamp = last
    /\ NextSequence(seq, last, timestamp) = 0
    /\ timestamp <= last

\* pub fn generate(&mut self) -> i64: the body, given the generator's fields,
\* the first clock read and the second one (used only when it is taken)
GenerateBody(seq, last, first, second, worker, datacenter) ==
    LET s1 == NextSequence(seq, last, first)
        ts == IF Rereads(seq, last, first) THEN second ELSE first
    IN  [sequence |-> s1, time |-> ts,
         id |-> Compose(ts, worker, datacenter, s1)]

\* fields of an identifier
TimestampOf(id) == id \div Pow2(TimestampShift)
SequenceOf(id) == id % Pow2(SequenceBits)
WorkerOf(id) == (id \div Pow2(WorkerShift)) % Pow2(TimestampShift - WorkerShift)
DatacenterOf(id) ==
    (id \div Pow2(DatacenterShift)) % Pow2(WorkerShift - DatacenterShift)

(***************************************************************************)
(* Initial state: lazy_static SNOWFLAKE = Mutex::new(Default::default())   *)
(***************************************************************************)
ClockValues == (DefaultEpoch + 1) .. (DefaultEpoch + MaxTime)

\* the state once the generator s has been constructed
Constructed(s) ==
    /\ clock = DefaultEpoch + 1
    /\ epoch = s.epoch
    /\ worker_id = s.worker_id
    /\ datacenter_id = s.datacenter_id
    /\ sequence = s.sequence
    /\ time = s.time
    /\ lock = 0
    /\ pc = [t \in Threads |-> "idle"]
    /\ ret = [t \in Threads |-> NoRet]
    /\ lastId = NoRet
    /\ hist = << >>

\* static ref SNOWFLAKE = Mutex::new(Default::default())
GenInit ==
    /\ Constructed(SnowflakeDefault)
    /\ args = [epoch |-> DefaultEpoch, worker_id |-> DefaultWorkerId,
               datacenter_id |-> DefaultDatacenterId]

\* the arguments given to Snowflake::new: the default ones, and an epoch one
\* millisecond earlier with worker 2 in datacenter 3
NewArgs ==
    {[epoch |-> DefaultEpoch, worker_id |-> DefaultWorkerId,
      datacenter_id |-> DefaultDatacenterId],
     [epoch |-> DefaultEpoch - 1, worker_id |-> 2, datacenter_id |-> 3]}

\* Snowflake::new(epoch, worker_id, datacenter_id)
GenNew ==
    \E a \in NewArgs :
        /\ Constructed(SnowflakeNew(a.epoch, a.worker_id, a.datacenter_id))
        /\ args = a

(***************************************************************************)
(* The wall clock                                                          *)
(***************************************************************************)
ClockTick ==
    /\ clock + 1 \in ClockValues
    /\ clock' = clock + 1
    /\ UNCHANGED <<epoch, worker_id, datacenter_id, sequence, time, lock, pc,
                   ret, lastId, hist, args>>
    /\ UNCHANGED codecVars

\* the system clock is set back (NTP step, manual change)
ClockRegress ==
    /\ \E c \in ClockValues : c < clock /\ clock' = c
    /\ UNCHANGED <<epoch, worker_id, datacenter_id, sequence, time, lock, pc,
                   ret, lastId, hist, args>>
    /\ UNCHANGED codecVars

(***************************************************************************)
(* A caller: SNOWFLAKE.lock().generate_u8_u64()                            *)
(***************************************************************************)
\* SNOWFLAKE.lock(): blocks until the mutex is free
Acquire(self) ==
    /\ pc[self] = "idle"
    /\ lock = 0
    /\ lock' = self
    /\ pc' = [pc EXCEPT ![self] = "locked"]
    /\ UNCHANGED <<clock, epoch, worker_id, datacenter_id, sequence, time, ret,
                   lastId, hist, args>>
    /\ UNCHANGED codecVars

\* generate(), run with the guard held. The clock may advance between the two
\* reads of the clock.
Generate(self) ==
    /\ pc[self] = "locked"
    /\ lock = self
    /\ \E c2 \in {c \in ClockValues : c = clock \/ c = clock + 1} :
       \E g \in {GenerateBody(sequence, time, GetTime(clock, epoch),
                              GetTime(c2, epoch), worker_id, datacenter_id)} :
         LET first == GetTime(clock, epoch)
             reread == Rereads(sequence, time, first)
         IN  /\ (~reread) => c2 = clock
             /\ clock' = c2
             /\ sequence' = g.sequence
             /\ time' = g.time
             /\ ret' = [ret EXCEPT ![self] = OkRet(g.id)]
             /\ lastId' = OkRet(g.id)
             /\ hist' = IF Len(hist) < MaxKept THEN Append(hist, g.id) ELSE hist
    /\ pc' = [pc EXCEPT ![self] = "done"]
    /\ UNCHANGED <<epoch, worker_id, datacenter_id, lock, args>>
    /\ UNCHANGED codecVars

\* a return that never drops the guard (the guard leaked, mem::forget)
ReleaseKeepsLock(self) ==
    /\ pc[self] = "done"
    /\ lock = self
    /\ pc' = [pc EXCEPT ![self] = "idle"]
    /\ ret' = [ret EXCEPT ![self] = NoRet]
    /\ UNCHANGED <<clock, epoch, worker_id, datacenter_id, sequence, time, lock,
                   lastId, hist, args>>
    /\ UNCHANGED codecVars

\* the caller takes the value and the guard is dropped at the end of its
\* statement
Release(self) ==
    /\ pc[self] = "done"
    /\ lock = self
    /\ lock' = 0
    /\ pc' = [pc EXCEPT ![self] = "idle"]
    /\ ret' = [ret EXCEPT ![self] = NoRet]
    /\ UNCHANGED <<clock, epoch, worker_id, datacenter_id, sequence, time,
                   lastId, hist, args>>
    /\ UNCHANGED codecVars

(***************************************************************************)
(* The packet codec (base_types/packet.rs)                                 *)
(***************************************************************************)
\* bounds: the strings given to from_str have lengths 0..MaxShort and
\* ContentCapacity-MaxNear .. ContentCapacity+MaxOver
MaxShort == 2
MaxNear == 1
MaxOver == 2
\* bytes 0..MaxOpByte (and 255) are tried as the opcode byte of a received frame
MaxOpByte == 7

\* pub type BasePacket = [u8; 1024]
PacketSize == 1024
\* pub struct PacketMessageContent(pub [u8; 994])
ContentCapacity == 994
\* let n = &self.0[..20]
ContentPrefix == 20
\* pub const PROTOCOL_VERSION: u8 = 1
ProtocolVersion == 1

\* enum Opcode, #[repr(u8)]
Opcodes == {"Ping", "Ok", "MemberJoin", "MemberLeave", "Message", "Login", "LoginOk"}

\* `op as u8`: the discriminants of the enum
Discriminant(op) ==
    CASE op = "Ping" -> 0
      [] op = "Ok" -> 1
      [] op = "MemberJoin" -> 2
      [] op = "MemberLeave" -> 3
      [] op = "Message" -> 4
      [] op = "Login" -> 5
      [] op = "LoginOk" -> 6

NoRes == [op |-> "none", kind |-> "None",
    opcode |-> "-", err |-> "-", val |-> 0, sf |-> << >>]
OkRes(o) == [op |-> o, kind |-> "Ok",
    opcode |-> "-", err |-> "-", val |-> 0, sf |-> << >>]
Panic(o) == [op |-> o, kind |-> "Panic",
    opcode |-> "-", err |-> "-", val |-> 0, sf |-> << >>]

\* impl From<u8> for Opcode: panics on a byte it does not list
OpcodeFromU8(b) ==
    CASE b = 0 -> [kind |-> "Ok", opcode |-> "Ping"]
      [] b = 1 -> [kind |-> "Ok", opcode |-> "Ok"]
      [] b = 2 -> [kind |-> "Ok", opcode |-> "MemberJoin"]
      [] b = 3 -> [kind |-> "Ok", opcode |-> "MemberLeave"]
      [] b = 4 -> [kind |-> "Ok", opcode |-> "Message"]
      [] OTHER -> [kind |-> "Panic", opcode |-> "-"]

\* n copies of byte b
Repeat(b, n) == [i \in 1 .. n |-> b]

\* A frame is the sequence of its 1024 bytes; the code indexes it from 0.
\* self.0[i]
At(p, i) == p[i + 1]
\* self.0[i] = b
Put(p, i, b) == [p EXCEPT ![i + 1] = b]
\* &self.0[from..to]
Slice(p, from, to) == SubSeq(p, from + 1, to)

\* Vec<u8> -> [u8; N]: fails unless the length is N
TryIntoArray(v, n) == Len(v) = n

\* from_str with the length test off by one (>= for >)
FromStrOffByOne(s) ==
    IF Len(s) >= ContentCapacity
    THEN [kind |-> "Err", err |-> "BadContent", opcode |-> "Message", bytes |-> << >>]
    ELSE [kind |-> "Ok", err |-> "-", opcode |-> "-",
          bytes |-> s \o [i \in 1 .. (ContentCapacity - Len(s)) |-> 0]]

\* from_str with the padding put before the text ([b, uw].concat())
FromStrPadFirst(s) ==
    IF Len(s) > ContentCapacity
    THEN [kind |-> "Err", err |-> "BadContent", opcode |-> "Message", bytes |-> << >>]
    ELSE [kind |-> "Ok", err |-> "-", opcode |-> "-",
          bytes |-> Repeat(0, ContentCapacity - Len(s)) \o s]

\* impl FromStr for PacketMessageContent; s is the string's UTF-8 bytes
FromStr(s) ==
    IF Len(s) > ContentCapacity
    THEN [kind |-> "Err", err |-> "BadContent", opcode |-> "Message", bytes |-> << >>]
    ELSE LET uw == s \o Repeat(0, ContentCapacity - Len(s))
         IN  IF TryIntoArray(uw, ContentCapacity)
             THEN [kind |-> "Ok", err |-> "-", opcode |-> "-", bytes |-> uw]
             ELSE [kind |-> "Panic", err |-> "-", opcode |-> "-", bytes |-> << >>]

\* Packet::set_content: the outcome and the frame afterwards
SetContent(p, c) ==
    LET t == OpcodeFromU8(At(p, 1))
    IN  IF t.kind = "Panic" THEN [kind |-> "Panic", err |-> "-", opcode |-> "-", frame |-> p]
        ELSE IF t.opcode = "Message"
        THEN LET v == Slice(p, 0, ContentPrefix) \o c
             IN  IF TryIntoArray(v, PacketSize)
                 THEN [kind |-> "Ok", err |-> "-", opcode |-> "-", frame |-> v]
                 ELSE [kind |-> "Panic", err |-> "-", opcode |-> "-", frame |-> p]
        ELSE [kind |-> "Err", err |-> "InvaidContent", opcode |-> t.opcode, frame |-> p]

ZeroFrame == Repeat(0, PacketSize)

\* set_op writing the byte the doc comment counts as the first
\* (self.0[0] = op as u8)
SetOpAtZero(p, op) == Put(p, 0, Discriminant(op))

\* Packet::set_op: self.0[1] = op as u8
SetOp(p, op) == Put(p, 1, Discriminant(op))

\* Packet::set_version: self.0[0] = version
SetVersion(p, v) == Put(p, 0, v)

\* i64::to_le_bytes, on a non-negative value: the low byte first
RECURSIVE LeBytes(_, _)
LeBytes(n, k) == IF k = 0 THEN << >> ELSE <<n % 256>> \o LeBytes(n \div 256, k - 1)

\* Snowflake::generate_u8_u64: self.generate().to_le_bytes()
GenerateU8U64(id) == LeBytes(id, 8)

\* u64::from_le_bytes
RECURSIVE U64FromLeBytes(_)
U64FromLeBytes(b) ==
    IF Len(b) = 0 THEN 0 ELSE b[1] + 256 * U64FromLeBytes(Tail(b))

\* set_snowflake with the destination slice one byte late
\* (self.0[start + 1..start + 9])
SetSnowflakeShifted(p, bytes, start) ==
    IF start + 9 > Len(p) THEN [kind |-> "Panic", frame |-> p]
    ELSE [kind |-> "Ok",
          frame |-> SubSeq(p, 1, start + 1) \o bytes
                       \o SubSeq(p, start + 10, Len(p))]

\* Packet::set_snowflake: self.0[start..start + 8].copy_from_slice(&sf);
\* the slice index panics when start + 8 is past the end of the frame
SetSnowflake(p, bytes, start) ==
    IF start + 8 > Len(p) THEN [kind |-> "Panic", frame |-> p]
    ELSE [kind |-> "Ok",
          frame |-> SubSeq(p, 1, start) \o bytes \o SubSeq(p, start + 9, Len(p))]

\* Packet::snowflake: self.0[start..start + 8].try_into().unwrap()
GetSnowflake(p, start) ==
    IF start + 8 > Len(p) THEN [kind |-> "Panic", bytes |-> << >>]
    ELSE LET v == Slice(p, start, start + 8)
         IN  IF TryIntoArray(v, 8) THEN [kind |-> "Ok", bytes |-> v]
             ELSE [kind |-> "Panic", bytes |-> << >>]

\* the identifiers written: 0x01..0x08 byte by byte, and what
\* generate_u8_u64 returns for the first identifier of millisecond 1
SnowflakeInputs ==
    {<<1, 2, 3, 4, 5, 6, 7, 8>>,
     GenerateU8U64(Compose(1, DefaultWorkerId, DefaultDatacenterId, 0))}

\* the offsets tried: those of the crate's test (3, 11, 30), the first and the
\* last offset that fit, the first that does not
FieldOffsets == {0, 3, 11, 30, PacketSize - 8, PacketSize - 7}

\* the strings tried: "uwu", "hello", and runs of 'a' of the bounded lengths
TextLengths ==
    (0 .. MaxShort) \cup ((ContentCapacity - MaxNear) .. (ContentCapacity + MaxOver))
Texts ==
    {<<117, 119, 117>>, <<104, 101, 108, 108, 111>>}
        \cup {Repeat(97, n) : n \in TextLengths}

\* the frames handed over by the transport: any version and opcode byte, over
\* an empty payload and over one that holds the bytes 01 .. 08 at its two ends
\* (offsets 2 and 1016)
VersionBytes == {0, ProtocolVersion}
OpcodeBytes == (0 .. MaxOpByte) \cup {255}
Payloads ==
    {ZeroFrame,
     SetSnowflake(SetSnowflake(ZeroFrame, <<1, 2, 3, 4, 5, 6, 7, 8>>, 2).frame,
                  <<1, 2, 3, 4, 5, 6, 7, 8>>, PacketSize - 8).frame}
Buffers ==
    {Put(Put(f, 0, v), 1, o) : v \in VersionBytes, o \in OpcodeBytes, f \in Payloads}

NoContent == [some |-> FALSE, bytes |-> << >>]

\* let mut packet = Packet::new([0; 1024])
CodecInit ==
    /\ packet_0 = ZeroFrame
    /\ content = NoContent
    /\ text = << >>
    /\ res = NoRes

\* no packet has been constructed
CodecIdle ==
    /\ packet_0 = << >>
    /\ content = NoContent
    /\ text = << >>
    /\ res = NoRes

\* a panic aborts the caller: nothing runs after it
Running == res.kind # "Panic"

\* Packet::new(inner)
PacketNew(inner) ==
    /\ Running
    /\ packet_0' = inner
    /\ res' = OkRes("new")
    /\ UNCHANGED <<content, text>>
    /\ UNCHANGED genVars

\* Packet::op
PacketOp ==
    /\ Running
    /\ LET t == OpcodeFromU8(At(packet_0, 1))
       IN  res' = [op |-> "op", kind |-> t.kind, opcode |-> t.opcode, err |-> "-",
                   val |-> 0, sf |-> << >>]
    /\ UNCHANGED <<packet_0, content, text>>
    /\ UNCHANGED genVars

\* Packet::version
PacketVersion ==
    /\ Running
    /\ res' = [OkRes("version") EXCEPT !.val = At(packet_0, 0)]
    /\ UNCHANGED <<packet_0, content, text>>
    /\ UNCHANGED genVars

\* Packet::set_op
PacketSetOp(op) ==
    /\ Running
    /\ packet_0' = SetOp(packet_0, op)
    /\ res' = [OkRes("set_op") EXCEPT !.opcode = op]
    /\ UNCHANGED <<content, text>>
    /\ UNCHANGED genVars

\* Packet::set_version
PacketSetVersion(v) ==
    /\ Running
    /\ packet_0' = SetVersion(packet_0, v)
    /\ res' = [OkRes("set_version") EXCEPT !.val = v]
    /\ UNCHANGED <<content, text>>
    /\ UNCHANGED genVars

\* s.parse::<PacketMessageContent>()
Parse(s) ==
    /\ Running
    /\ LET r == FromStr(s)
       IN  /\ res' = [op |-> "from_str", kind |-> r.kind, opcode |-> r.opcode,
                      err |-> r.err, val |-> 0, sf |-> << >>]
           /\ content' = IF r.kind = "Ok" THEN [some |-> TRUE, bytes |-> r.bytes]
                         ELSE NoContent
    /\ text' = s
    /\ UNCHANGED packet_0
    /\ UNCHANGED genVars

\* packet.set_content(content)
PacketSetContent ==
    /\ Running
    /\ content.some
    /\ LET r == SetContent(packet_0, content.bytes)
       IN  /\ res' = [op |-> "set_content", kind |-> r.kind, opcode |-> r.opcode,
                      err |-> r.err, val |-> 0, sf |-> << >>]
           /\ packet_0' = r.frame
    /\ UNCHANGED <<content, text>>
    /\ UNCHANGED genVars

\* packet.set_snowflake(sf, start_offset)
PacketSetSnowflake(bytes, start) ==
    /\ Running
    /\ LET r == SetSnowflake(packet_0, bytes, start)
       IN  /\ res' = [op |-> "set_snowflake", kind |-> r.kind, opcode |-> "-",
                      err |-> "-", val |-> start, sf |-> bytes]
           /\ packet_0' = r.frame
    /\ UNCHANGED <<content, text>>
    /\ UNCHANGED genVars

\* packet.snowflake(start)
PacketSnowflake(start) ==
    /\ Running
    /\ LET r == GetSnowflake(packet_0, start)
       IN  /\ res' = [op |-> "snowflake", kind |-> r.kind, opcode |-> "-",
                      err |-> "-", val |-> start, sf |-> r.bytes]
    /\ UNCHANGED <<packet_0, content, text>>
    /\ UNCHANGED genVars

NextCodec ==
    \/ \E b \in Buffers : PacketNew(b)
    \/ PacketOp
    \/ PacketVersion
    \/ \E op \in Opcodes : PacketSetOp(op)
    \/ \E v \in VersionBytes : PacketSetVersion(v)
    \/ \E s \in Texts : Parse(s)
    \/ PacketSetContent

(***************************************************************************)
(* The specifications                                                       *)
(***************************************************************************)
Init ==
    /\ GenInit
    /\ CodecIdle

Next ==
    \/ ClockTick
    \/ ClockRegress
    \/ \E t \in Threads : Acquire(t)
    \/ \E t \in Threads : Generate(t)
    \/ \E t \in Threads : Release(t)

Spec == Init /\ [][Next]_vars

NextMonotonic ==
    \/ ClockTick
    \/ \E t \in Threads : Acquire(t)
    \/ \E t \in Threads : Generate(t)
    \/ \E t \in Threads : Release(t)

SpecMonotonic == Init /\ [][NextMonotonic]_vars

\* the callers under fair scheduling: a thread that can run generate() or
\* drop the guard does so (weak fairness), and a thread blocked in lock()
\* gets the mutex if it is free again and again (parking_lot's mutex is
\* eventually fair: strong fairness); the clock advances while it can
Fairness ==
    /\ WF_vars(ClockTick)
    /\ \A t \in Threads :
          /\ SF_vars(Acquire(t))
          /\ WF_vars(Generate(t))
          /\ WF_vars(Release(t))

SpecLive == Init /\ [][Next]_vars /\ Fairness

\* a generator made by Snowflake::new, under a clock that never goes back
InitNew ==
    /\ GenNew
    /\ CodecIdle

SpecNew == InitNew /\ [][NextMonotonic]_vars

InitCodec ==
    /\ GenInit
    /\ CodecInit

SpecCodec == InitCodec /\ [][NextCodec]_vars

\* the codec with the identifier fields: the frame of the crate's test, its
\* two strings, and writes and reads of identifier fields
TestTexts == {<<117, 119, 117>>, <<104, 101, 108, 108, 111>>}

NextFields ==
    \/ PacketSetOp("Message")
    \/ \E b \in SnowflakeInputs, o \in FieldOffsets : PacketSetSnowflake(b, o)
    \/ \E o \in FieldOffsets : PacketSnowflake(o)
    \/ \E s \in TestTexts : Parse(s)
    \/ PacketSetContent

SpecFields == InitCodec /\ [][NextFields]_vars

(***************************************************************************)
(* message_content(), as the specification describes it (it has no code):  *)
(* the payload from offset 27 with the trailing run of zero bytes removed. *)
(***************************************************************************)
MessageContentOffset == 27

RECURSIVE StripTrailingZeros(_)
StripTrailingZeros(b) ==
    IF Len(b) > 0 /\ b[Len(b)] = 0 THEN StripTrailingZeros(SubSeq(b, 1, Len(b) - 1))
    ELSE b

MessageContent(p) == StripTrailingZeros(Slice(p, MessageContentOffset, PacketSize))

(***************************************************************************)
(* Properties                                                              *)
(***************************************************************************)
\* thread t's generate() returns in this step
Returns(t) == pc[t] = "locked" /\ pc'[t] = "done"

\* the identifiers the observer has kept
Kept == {hist[i] : i \in 1 .. Len(hist)}

\* C1: with a clock that never moves backward, every identifier returned is
\* strictly greater than the one returned before it, also past 4096
\* identifiers in one millisecond. (checked under SpecMonotonic)
C1_StrictlyIncreasing ==
    [][\A t \in Threads :
          (Returns(t) /\ lastId.kind = "Ok") => ret'[t].val > lastId.val]_vars

\* C2: no generate() call returns a value that an earlier call of the same
\* generator returned, whatever the clock does.
C2_Unique ==
    [][\A t \in Threads : Returns(t) => ret'[t].val \notin Kept]_vars

\* C3: a generate() call that reads a clock value earlier than the last recorded
\* timestamp fails with ClockRegression, returns no identifier and leaves the
\* last timestamp and the sequence as they were.
C3_ClockRegressionFails ==
    [][\A t \in Threads :
          (Returns(t) /\ GetTime(clock, epoch) < time)
              => /\ ret'[t].kind = "ClockRegression"
                 /\ time' = time
                 /\ sequence' = sequence]_vars

\* C4: the generate() call that follows 4096 identifiers of one millisecond
\* (the sequence wraps to 0) returns only once the clock is past the last
\* recorded timestamp: its identifier has a strictly greater timestamp and
\* sequence 0. (checked under SpecMonotonic)
C4_WrapWaitsForClock ==
    [][\A t \in Threads :
          (Returns(t) /\ GetTime(clock, epoch) = time /\ sequence = SequenceMask)
              => /\ TimestampOf(ret'[t].val) > time
                 /\ SequenceOf(ret'[t].val) = 0]_vars

\* at most one thread is between acquiring and releasing the generator
MutualExclusion == Cardinality({t \in Threads : pc[t] \in {"locked", "done"}}) <= 1

\* C5: at most one thread at a time runs the generator's critical section, and
\* under every interleaving of the callers the identifiers returned are
\* pairwise distinct. (checked under SpecMonotonic)
C5_ConcurrentSafety ==
    [][/\ MutualExclusion'
       /\ \A t \in Threads :
            Returns(t) =>
                /\ ret'[t].val \notin Kept
                /\ lastId.kind = "Ok" => ret'[t].val # lastId.val]_vars

\* C6: decoding the opcode of a frame whose byte 1 is a valid opcode o in 0..6
\* returns o.
C6_ValidOpcodeDecodes ==
    (res.op = "op" /\ At(packet_0, 1) \in {Discriminant(o) : o \in Opcodes})
        => (res.kind = "Ok" /\ Discriminant(res.opcode) = At(packet_0, 1))

\* C7: wrapping a frame whose byte 1 is not in 0..6 and decoding its opcode
\* never aborts, and the decode returns the error UnknownOpcode.
C7_UnknownOpcodeIsError ==
    (/\ res.op \in {"new", "op"}
     /\ At(packet_0, 1) \notin {Discriminant(o) : o \in Opcodes})
        => /\ res.kind # "Panic"
           /\ res.op = "op" => (res.kind = "Err" /\ res.err = "UnknownOpcode")

\* C8: a string of at most 994 bytes, encoded and written with
\* set_message_content into a Message frame, is read back unchanged by
\* message_content().
C8_RoundTrip ==
    (/\ res.op = "set_content"
     /\ At(packet_0, 1) = Discriminant("Message")
     /\ Len(text) <= ContentCapacity
     /\ content.some)
        => (res.kind = "Ok" /\ MessageContent(packet_0) = text)

\* C9: encoding a string longer than 994 bytes fails with ContentTooLong
\* (BadContent), yields no content and changes no frame byte; every string of
\* at most 994 bytes, 994 included, is accepted.
C9_ContentTooLong ==
    [][res'.op = "from_str" =>
          /\ Len(text') > ContentCapacity =>
                /\ res'.kind = "Err"
                /\ res'.err = "BadContent"
                /\ content' = NoContent
                /\ packet_0' = packet_0
          /\ Len(text') <= ContentCapacity =>
                /\ res'.kind = "Ok"
                /\ content'.some]_vars

\* C9 witness: a string of 995 bytes or more was parsed and rejected
C9_Witness ==
    res.op = "from_str" /\ Len(text) > ContentCapacity /\ res.err = "BadContent"

\* C10: set_message_content on a frame whose opcode byte is not Message (4)
\* returns the error InvalidContentTarget (InvaidContent) without aborting and
\* leaves the frame unchanged.
C10_InvalidContentTarget ==
    [][(res'.op = "set_content" /\ At(packet_0, 1) # Discriminant("Message"))
          => /\ res'.kind = "Err"
             /\ res'.err = "InvaidContent"
             /\ packet_0' = packet_0]_vars

\* a step that is a completed call of set_content on a Message frame
SetsMessageContent ==
    /\ res'.op = "set_content"
    /\ At(packet_0, 1) = Discriminant("Message")

\* C11: on a Message frame set_message_content overwrites only bytes 27..1023:
\* the call completes, the frame is still 1024 bytes, and the version byte, the
\* opcode byte and the identifier fields at offsets 3, 11 and 19 (every byte
\* below 27) read back unchanged.
C11_ContentOnlyPayload ==
    [][SetsMessageContent =>
          /\ res'.kind = "Ok"
          /\ Len(packet_0') = PacketSize
          /\ \A i \in 0 .. (MessageContentOffset - 1) :
                At(packet_0', i) = At(packet_0, i)]_vars

\* C12: on a packet whose opcode is Message, set_content with a parsed content
\* returns Ok; afterwards the bytes from offset 20 are the text's bytes, byte 0
\* keeps its value and byte 1 is 4; and a frame that holds a text this way
\* still holds it after set_snowflake at offsets 3, 11 and 30.
C12_TestPacket ==
    [][/\ SetsMessageContent =>
             /\ res'.kind = "Ok"
             /\ Slice(packet_0', ContentPrefix, ContentPrefix + Len(text)) = text
             /\ At(packet_0', 0) = At(packet_0, 0)
             /\ At(packet_0', 1) = Discriminant("Message")
       /\ (/\ res'.op = "set_snowflake"
           /\ res'.val \in {3, 11, 30}
           /\ Len(text) \in 1 .. 10
           /\ At(packet_0, 1) = Discriminant("Message")
           /\ Slice(packet_0, ContentPrefix, ContentPrefix + Len(text)) = text)
             => /\ res'.kind = "Ok"
                /\ Slice(packet_0', ContentPrefix, ContentPrefix + Len(text)) = text
                /\ At(packet_0', 0) = At(packet_0, 0)
                /\ At(packet_0', 1) = Discriminant("Message")]_vars

\* C13: for every offset in 0..1016 and every 8-byte identifier,
\* set_snowflake(id, offset) completes and writes exactly the bytes
\* offset..offset+7, the identifier's bytes in order (the low byte of a
\* generated identifier first), and leaves the other 1016 bytes unchanged;
\* snowflake(offset) returns the 8 bytes at offset, so a read that follows
\* the write at the same offset returns id.
C13_IdentifierField ==
    [][/\ (res'.op = "set_snowflake" /\ res'.val \in 0 .. (PacketSize - 8)) =>
             LET o == res'.val
                 id == Compose(1, DefaultWorkerId, DefaultDatacenterId, 0)
             IN  /\ res'.kind = "Ok"
                 /\ Len(packet_0') = PacketSize
                 /\ Slice(packet_0', 0, o) = Slice(packet_0, 0, o)
                 /\ Slice(packet_0', o, o + 8) = res'.sf
                 /\ Slice(packet_0', o + 8, PacketSize)
                       = Slice(packet_0, o + 8, PacketSize)
                 /\ res'.sf = GenerateU8U64(id)
                       => U64FromLeBytes(Slice(packet_0', o, o + 8)) = id
       /\ (res'.op = "snowflake" /\ res'.val \in 0 .. (PacketSize - 8)) =>
             /\ res'.kind = "Ok"
             /\ res'.sf = [k \in 1 .. 8 |-> At(packet_0, res'.val + k - 1)]
             /\ (res.op = "set_snowflake" /\ res.val = res'.val)
                   => res'.sf = res.sf]_vars

\* C13 witness: the identifier 01 02 .. 08 was written at the last offset that
\* fits, 1016, over a frame that held other identifiers, and read back
C13_Witness ==
    /\ res.op = "snowflake"
    /\ res.val = PacketSize - 8
    /\ res.sf = <<1, 2, 3, 4, 5, 6, 7, 8>>
    /\ At(packet_0, 3) # 0

\* C14: a generator constructed with (epoch, worker id, datacenter id) holds
\* exactly those values in every state of its life, and every identifier it
\* returns carries that worker id and that datacenter id.
C14_ConstructedValues ==
    /\ epoch = args.epoch
    /\ worker_id = args.worker_id
    /\ datacenter_id = args.datacenter_id
    /\ \A t \in Threads :
          ret[t].kind = "Ok" =>
             /\ WorkerOf(ret[t].val) = args.worker_id
             /\ DatacenterOf(ret[t].val) = args.datacenter_id

\* C15: when from_str succeeds, the content it returns is exactly 994 bytes:
\* the first Len(text) bytes are the text's bytes and every byte after them is
\* zero.
C15_EncodePadsWithZeros ==
    (res.op = "from_str" /\ res.kind = "Ok") =>
        /\ content.some
        /\ Len(content.bytes) = ContentCapacity
        /\ SubSeq(content.bytes, 1, Len(text)) = text
        /\ \A i \in (Len(text) + 1) .. ContentCapacity : content.bytes[i] = 0

\* C15 witness: "uwu" was parsed into a content
C15_Witness ==
    /\ res.op = "from_str"
    /\ res.kind = "Ok"
    /\ text = <<117, 119, 117>>
    /\ content.some

\* C16: every identifier returned equals
\* timestamp * 2^22 + worker * 2^17 + datacenter * 2^12 + sequence, for the
\* timestamp, worker id, datacenter id and sequence of the call, with the
\* timestamp in 0 .. 2^42 - 1, worker and datacenter in 0 .. 31 and the
\* sequence in 0 .. 4095; so the fields do not overlap and each one is
\* recovered from the identifier.
C16_BitLayout ==
    \A t \in Threads :
        pc[t] = "done" =>
            LET id == ret[t].val
            IN  /\ ret[t].kind = "Ok"
                /\ id = time * Pow2(TimestampShift) + worker_id * Pow2(WorkerShift)
                          + datacenter_id * Pow2(DatacenterShift) + sequence
                /\ time >= 0
                /\ time \div Pow2(21) < Pow2(21)
                /\ worker_id \in 0 .. 31
                /\ datacenter_id \in 0 .. 31
                /\ sequence \in 0 .. 4095
                /\ TimestampOf(id) = time
                /\ WorkerOf(id) = worker_id
                /\ DatacenterOf(id) = datacenter_id
                /\ SequenceOf(id) = sequence

\* C16 witness: an identifier was returned with all four fields non-zero, the
\* sequence at its largest value
C16_Witness ==
    \E t \in Threads :
        /\ pc[t] = "done"
        /\ ret[t].kind = "Ok"
        /\ SequenceOf(ret[t].val) = 4095
        /\ TimestampOf(ret[t].val) = MaxTime

\* C17: under fair scheduling, with callers that call generate() again and
\* again, every caller is infinitely often at the point where its generate()
\* has returned and infinitely often back outside with the lock released: no
\* wait for the lock, no generate() call, whatever the sequence and the clock
\* are, and no release lasts forever.
C17_Termination ==
    \A t \in Threads :
        /\ []<>(pc[t] = "done")
        /\ []<>(pc[t] = "idle" /\ lock # t)

\* C17 witness: a call holds the lock with the sequence exhausted for the
\* current millisecond (4095, clock still on the last timestamp) while the
\* other caller waits for the lock
C17_Witness ==
    \E t \in Threads, u \in Threads :
        /\ t # u
        /\ pc[t] = "locked"
        /\ pc[u] = "idle"
        /\ sequence = SequenceMask
        /\ GetTime(clock, epoch) = time

\* C18: set_op(op) changes only byte 1, to op's discriminant, and
\* set_version(v) changes only byte 0, to v; neither rewrites bytes 2..1023,
\* whatever payload the frame holds.
C18_HeaderSetters ==
    [][/\ res'.op = "set_op" =>
             /\ res'.kind = "Ok"
             /\ Len(packet_0') = PacketSize
             /\ At(packet_0', 1) = Discriminant(res'.opcode)
             /\ At(packet_0', 0) = At(packet_0, 0)
             /\ Slice(packet_0', 2, PacketSize) = Slice(packet_0, 2, PacketSize)
       /\ res'.op = "set_version" =>
             /\ res'.kind = "Ok"
             /\ Len(packet_0') = PacketSize
             /\ At(packet_0', 0) = res'.val
             /\ At(packet_0', 1) = At(packet_0, 1)
             /\ Slice(packet_0', 2, PacketSize) = Slice(packet_0, 2, PacketSize)]_vars

\* C18 witness: set_op(Message) was called on a frame of version 1 whose
\* payload is not empty at either end
C18_Witness ==
    /\ res.op = "set_op"
    /\ res.opcode = "Message"
    /\ At(packet_0, 0) = ProtocolVersion
    /\ At(packet_0, 1) = Discriminant("Message")
    /\ At(packet_0, 2) # 0
    /\ At(packet_0, PacketSize - 1) # 0

\* C19: after every generate() call the stored sequence is in 0..4095, the
\* stored last timestamp and sequence equal the timestamp and sequence fields
\* of the identifier just returned, the sequence is 0 whenever the call read
\* a clock value different from the previous last timestamp, and the stored
\* last timestamp is not below the one stored before the call.
C19_StoredState ==
    [][\A t \in Threads :
          Returns(t) =>
             /\ sequence' \in 0 .. 4095
             /\ time' = TimestampOf(ret'[t].val)
             /\ sequence' = SequenceOf(ret'[t].val)
             /\ GetTime(clock, epoch) # time => sequence' = 0
             /\ time' >= time]_vars

=============================================================================
